---- MODULE Spec2Model ----
(***************************************************************************)
(* Cycle-level model of the LUNA USB 2.0 endpoint transaction engines:     *)
(*   SetupFIFOInterface, InFIFOInterface, OutFIFOInterface  (eptri.py)     *)
(*   USBStreamOutEndpoint                                   (stream.py)    *)
(*                                                                         *)
(* Every manager is a synchronous circuit in the "usb" clock domain.  One  *)
(* step of the model is one clock tick of one manager: the inputs of the   *)
(* tick (the link layer's token and strobes, the controller's register     *)
(* access) are drawn from a finite set, the combinational outputs are      *)
(* operators of the registers and the inputs, and the registers take the   *)
(* values the m.d.usb assignments give them.  Where several m.d.usb        *)
(* assignments address one register in a tick, the last one in the source  *)
(* wins (nMigen semantics).                                                *)
(*                                                                         *)
(* The hardware widths that make the state space infinite for TLC are      *)
(* scaled: endpoint numbers range over 0..MaxEndpoint instead of 0..15,    *)
(* payload bytes over two values instead of 0..255, and the FIFO depths    *)
(* are the bounds SetupFifoDepth and OutFifoDepth instead of 10.  The IN   *)
(* manager's max_packet_size is a constructor parameter, and so are the    *)
(* endpoint number and the max_packet_size of USBStreamOutEndpoint.        *)
(*                                                                         *)
(* USBStreamOutEndpoint stores ten bits per byte: the payload and the      *)
(* first/last markers of the boundary detector.  The adapter reads neither *)
(* marker and hands both to the stream as stored; the model keeps the      *)
(* payload.  Its is_first_byte register is written and never read, and is  *)
(* left out.                                                               *)
(***************************************************************************)
EXTENDS Integers, Sequences, FiniteSets, TLC

\* ------------------------------------------------------------------ bounds
\* Endpoint numbers are 0..MaxEndpoint (4 bits, 0..15, in the source).
MaxEndpoint == 1
\* depth of the SETUP FIFO (depth=10 in the source, eptri.py:102).
SetupFifoDepth == 4
\* depth of the OUT FIFO (depth=10 in the source, eptri.py:524).
OutFifoDepth == 2
\* max_packet_size of the IN manager (a constructor parameter, default 64).
InMaxPacketSize == 2
\* max_packet_size of USBStreamOutEndpoint (a constructor parameter).
StreamMaxPacketSize == 2

Endpoints == 0..MaxEndpoint

\* Payload bytes.  No manager inspects a payload byte: bytes are only stored
\* and forwarded, so two distinct values are enough to observe the order, the
\* loss and the duplication of bytes.
Byte == {0, 1}

\* "no byte on the receive stream in this tick" (rx.valid & rx.next is low).
NoByte == -1

\* The token the tokenizer presents: is_setup, is_in, is_out and is_ping decode
\* one PID, so at most one of them is high; "SOF" stands for any other PID.
Pids == {"SETUP", "IN", "OUT", "PING", "SOF"}

\* The three handshake lines of EndpointInterface.handshakes_out.
Handshake(a, n, s) == [ack |-> a, nak |-> n, stall |-> s]
NoHandshake == Handshake(FALSE, FALSE, FALSE)

\* ------------------------------------------------------------------ state
VARIABLES
    \* SetupFIFOInterface
    setup_fifo,     \* contents of the SETUP FIFO, oldest byte first
    setup_epno,     \* self.epno.r_data
    setup_hs,       \* handshakes_out during the last tick
    \* OutFIFOInterface
    out_fifo,       \* contents of the OUT FIFO, oldest byte first
    out_epno,       \* self.epno.r_data
    out_enable,     \* self.enable.r_data, the armed flag
    out_stalled,    \* endpoint_stalled, one flag per endpoint number
    out_hs,         \* handshakes_out during the last tick
    out_spent,      \* TRUE from the tick of an ACK until the next enable write
    \* InFIFOInterface
    in_fifo,        \* contents of the IN FIFO, oldest byte first
    in_bytes_in_fifo, \* bytes_in_fifo
    in_epno,        \* self.epno.r_data
    in_stalled,     \* endpoint_stalled, one flag per endpoint number
    in_pid,         \* self.pid.r_data, the data toggle
    in_state,       \* the FSM state
    in_tx_first,    \* tx.first (a register)
    in_hs,          \* handshakes_out during the last tick
    in_track,       \* the transmission observed: "none", "sending", "sent",
                    \* or "disturbed" (the controller wrote data or reset
                    \* while the packet was on its way)
    in_packet,      \* the FIFO contents when the transmission started
    in_sent,        \* the beats of tx the transmission has produced so far
    in_cleared,     \* TRUE from a write of the reset register until the next
                    \* write of the epno register
    \* USBStreamOutEndpoint
    rx_committed,   \* rx_fifo: the committed bytes, oldest first
    rx_pending,     \* rx_fifo: the bytes written since the last commit/discard
    expected_data_toggle, \* expected_data_toggle
    stream_hs,      \* handshakes_out during the last tick
    stream_reack,   \* the last tick ACKed a packet it skipped
    \* the host and link layer in front of USBStreamOutEndpoint
    host_phase,     \* "idle", "data" (an OUT packet to the adapter's endpoint
                    \* is arriving) or "response" (its CRC was valid and the
                    \* link layer is about to ask for the handshake)
    host_toggle,    \* rx_pid_toggle of the packet
    host_packet,    \* the bytes of the packet the host has sent so far
    host_end,       \* how the last packet ended: "none", "complete", "invalid"
    host_run,       \* the uncommitted run the FIFO held when the packet ended
    \* The host and the controller as the SETUP capture sees them
    ctl_pid,        \* PID of the latest token (the tokenizer's is_setup, ...)
    ctl_endpoint,   \* endpoint of the latest SETUP token, NoEndpoint: none yet
    ctl_packet,     \* bytes of the data phase of the latest SETUP token
    ctl_read,       \* bytes the controller has read since that token
    ctl_discarded,  \* TRUE iff that token arrived over unread bytes
    \* The host as the OUT manager sees it, one OUT transaction at a time
    oh_phase,       \* "idle", "data" (an OUT token has arrived and its data
                    \* packet is arriving) or "responded" (the handshake of
                    \* the transaction was given in the last tick)
    oh_endpoint,    \* endpoint of the OUT token of the transaction
    oh_before,      \* the FIFO contents when that token arrived
    oh_packet,      \* the bytes of the data packet the host has sent so far
    oh_result,      \* the handshake the transaction was answered with
    \* USBStreamInEndpoint: its USBInTransferManager
    tm_write,       \* the packet being assembled from the input stream:
                    \* [bytes, last] (end-of-record marker seen)
    tm_read,        \* the packet offered to the host: [bytes, last]
    tm_state,       \* "WAIT_FOR_DATA", "WAIT_TO_SEND" or "WAIT_FOR_ACK"
    tm_zlp_due,     \* a zero-length packet follows the offered packet
    tm_data_pid,    \* data_pid
    tx_owed         \* the packet the host acknowledged last was full-size
                    \* and ended a record

setupVars == <<setup_fifo, setup_epno, setup_hs>>
outVars == <<out_fifo, out_epno, out_enable, out_stalled, out_hs, out_spent>>
inRegs == <<in_fifo, in_bytes_in_fifo, in_epno, in_stalled, in_pid, in_state,
            in_tx_first>>
inVars == <<inRegs, in_hs, in_track, in_packet, in_sent, in_cleared>>
streamOutVars == <<rx_committed, rx_pending, expected_data_toggle, stream_hs,
                   stream_reack>>
hostVars == <<host_phase, host_toggle, host_packet, host_end, host_run>>
ctlVars == <<ctl_pid, ctl_endpoint, ctl_packet, ctl_read, ctl_discarded>>
ohVars == <<oh_phase, oh_endpoint, oh_before, oh_packet, oh_result>>
streamInVars ==
    <<tm_write, tm_read, tm_state, tm_zlp_due, tm_data_pid, tx_owed>>
vars ==
    <<setupVars, outVars, inVars, streamOutVars, hostVars, ctlVars, ohVars,
      streamInVars>>

\* ------------------------------------------------------------------ FIFO
\* One clock edge of a synchronous FIFO (nmigen.lib.fifo.SyncFIFOBuffered) of
\* the given depth: a read pops the oldest element when there is one (r_rdy),
\* a write appends when the FIFO was not full (w_rdy), a reset empties it and
\* overrides both.
FifoWRdy(q, depth) == Len(q) < depth
FifoRRdy(q) == Len(q) > 0
FifoNext(q, depth, reset, w_en, w_data, r_en) ==
    IF reset THEN <<>>
    ELSE LET popped == IF r_en /\ FifoRRdy(q) THEN Tail(q) ELSE q
         IN  IF w_en /\ FifoWRdy(q, depth) THEN Append(popped, w_data) ELSE popped

\* ------------------------------------------------------ SetupFIFOInterface
\* Inputs of one tick: the token, the link layer's strobes, the byte on the
\* receive stream (NoByte: none), and the controller's CSR access.
SetupCsrOps == {"none", "data_r", "reset_w"}
SetupInputs ==
    [pid : Pids, endpoint : Endpoints, new_token : BOOLEAN,
     rx_ready_for_response : BOOLEAN, rx : Byte \cup {NoByte}, csr : SetupCsrOps]

SetupNewSetup(i) == i.new_token /\ i.pid = "SETUP"

\* Mutant: SETUP flow-controlled like an OUT endpoint (ACK only with room).
SetupAck_FlowControlled(i) ==
    i.pid = "SETUP" /\ i.rx_ready_for_response
    /\ FifoWRdy(setup_fifo, SetupFifoDepth)

\* handshakes_out.ack
SetupAck(i) == i.pid = "SETUP" /\ i.rx_ready_for_response
\* handshakes_out.nak and .stall have no driver in SetupFIFOInterface.
SetupNak(i) == FALSE
SetupStall(i) == FALSE

\* Mutant: the FIFO captures the data phase of every token.
SetupFifoWEn_AnyToken(i) == i.rx # NoByte

SetupFifoWEn(i) == i.pid = "SETUP" /\ i.rx # NoByte
SetupFifoREn(i) == i.csr = "data_r"

\* self.have.r_data and self.data.r_data
SetupHave == FifoRRdy(setup_fifo)

SetupFifoNext(i) ==
    FifoNext(setup_fifo, SetupFifoDepth, SetupNewSetup(i),
             SetupFifoWEn(i), i.rx, SetupFifoREn(i))

SetupEpnoNext(i) == IF i.new_token THEN i.endpoint ELSE setup_epno

SetupTick(i) ==
    /\ setup_fifo' = SetupFifoNext(i)
    /\ setup_epno' = SetupEpnoNext(i)
    /\ setup_hs' = Handshake(SetupAck(i), SetupNak(i), SetupStall(i))

SetupInit ==
    /\ setup_fifo = <<>>
    /\ setup_epno = 0
    /\ setup_hs = NoHandshake

SetupNext == \E i \in SetupInputs : SetupTick(i)

\* ------------------------------------- SetupFIFOInterface behind a host
\* The tokenizer holds the PID and the endpoint of the latest token between
\* tokens (is_setup stays high through the data phase of a SETUP token), and
\* self.epno latches that endpoint at every token, so it is the tokenizer's
\* endpoint.  A token, a data byte and the request for the handshake come in
\* different ticks.  The host's SETUP data phase is at most SetupMaxPacket
\* bytes, one more than the FIFO holds.
NoEndpoint == -1
SetupMaxPacket == SetupFifoDepth + 1

SetupHostInputs ==
    {i \in SetupInputs :
        /\ ~i.new_token => (i.pid = ctl_pid /\ i.endpoint = setup_epno)
        /\ i.new_token => i.rx = NoByte
        /\ i.rx_ready_for_response => (~i.new_token /\ i.rx = NoByte)
        /\ (i.pid = "SETUP" /\ i.rx # NoByte)
               => Len(ctl_packet) < SetupMaxPacket}

CtlPidNext(i) == IF i.new_token THEN i.pid ELSE ctl_pid
CtlEndpointNext(i) == IF SetupNewSetup(i) THEN i.endpoint ELSE ctl_endpoint
CtlPacketNext(i) ==
    IF SetupNewSetup(i) THEN <<>>
    ELSE IF ctl_pid = "SETUP" /\ ~i.new_token /\ i.rx # NoByte
         THEN Append(ctl_packet, i.rx)
         ELSE ctl_packet
\* What the controller reads from self.data while self.have reads 1.
CtlReadNext(i) ==
    IF SetupNewSetup(i) THEN <<>>
    ELSE IF i.csr = "data_r" /\ SetupHave
         THEN Append(ctl_read, Head(setup_fifo))
         ELSE ctl_read
CtlDiscardedNext(i) ==
    IF SetupNewSetup(i) THEN SetupHave ELSE ctl_discarded

SetupHostTick(i) ==
    /\ ctl_pid' = CtlPidNext(i)
    /\ ctl_endpoint' = CtlEndpointNext(i)
    /\ ctl_packet' = CtlPacketNext(i)
    /\ ctl_read' = CtlReadNext(i)
    /\ ctl_discarded' = CtlDiscardedNext(i)

\* Before the first token is_setup, is_in, is_out and is_ping are all low,
\* which is what the SETUP capture sees during a start-of-frame token.
SetupHostInit ==
    /\ ctl_pid = "SOF"
    /\ ctl_endpoint = NoEndpoint
    /\ ctl_packet = <<>>
    /\ ctl_read = <<>>
    /\ ctl_discarded = FALSE

SetupHostNext == \E i \in SetupHostInputs : SetupTick(i) /\ SetupHostTick(i)

\* -------------------------------------------------------- OutFIFOInterface
\* The controller's CSR access of a tick: the bridge decodes one register per
\* bus cycle, so at most one strobe is high.
CsrNone == [op |-> "none", val |-> 0]
OutCsrOps ==
    {CsrNone, [op |-> "data_r", val |-> 0], [op |-> "reset_w", val |-> 1]}
    \cup {[op |-> "epno_w", val |-> e] : e \in Endpoints}
    \cup {[op |-> "enable_w", val |-> v] : v \in {0, 1}}
    \cup {[op |-> "stall_w", val |-> v] : v \in {0, 1}}
OutInputs ==
    [pid : Pids, endpoint : Endpoints, new_token : BOOLEAN,
     rx_ready_for_response : BOOLEAN, rx : Byte \cup {NoByte}, csr : OutCsrOps]

OutIsOut(i) == i.pid = "OUT"
\* Mutant: the stall flag of the selected endpoint instead of the token's.
OutStalled_Selected(i) == OutIsOut(i) /\ out_stalled[out_epno]
OutStalled(i) == OutIsOut(i) /\ out_stalled[i.endpoint]
OutEndpointMatches(i) == i.endpoint = out_epno
OutAllowReceive(i) ==
    OutEndpointMatches(i) /\ out_enable /\ OutIsOut(i) /\ ~OutStalled(i)
\* Mutant: NAK whenever the receive is not allowed, stalled or not.
OutNakReceives_StalledToo(i) == OutIsOut(i) /\ ~OutAllowReceive(i)

OutNakReceives(i) == OutIsOut(i) /\ ~OutAllowReceive(i) /\ ~OutStalled(i)

\* handshakes_out.ack, .stall and .nak
OutAck(i) == OutAllowReceive(i) /\ i.rx_ready_for_response
OutStall(i) == OutStalled(i) /\ i.rx_ready_for_response
OutNak(i) == OutNakReceives(i) /\ i.rx_ready_for_response

OutFifoWEn(i) == OutAllowReceive(i) /\ i.rx # NoByte
OutFifoREn(i) == i.csr.op = "data_r"
OutHave == FifoRRdy(out_fifo)

OutFifoNext(i) ==
    FifoNext(out_fifo, OutFifoDepth, i.csr.op = "reset_w",
             OutFifoWEn(i), i.rx, OutFifoREn(i))

OutEpnoNext(i) == IF i.csr.op = "epno_w" THEN i.csr.val ELSE out_epno

\* Mutant: the two assignments to enable in the other order (the write wins).
OutEnableNext_WriteWins(i) ==
    IF i.csr.op = "enable_w" THEN i.csr.val = 1
    ELSE IF OutAck(i) THEN FALSE
    ELSE out_enable

\* The CPU's write to enable, then the clear on ACK: the clear is the later
\* assignment and wins when both happen in one tick.
OutEnableNext(i) ==
    IF OutAck(i) THEN FALSE
    ELSE IF i.csr.op = "enable_w" THEN i.csr.val = 1
    ELSE out_enable

\* The CPU's write to stall addresses the endpoint in epno; the clear on a
\* new SETUP token addresses the token's endpoint and is the later assignment.
\* Mutant: the controller's write is applied after the SETUP clear.
OutStalledNext_WriteWins(i) ==
    LET cleared == IF i.pid = "SETUP" /\ i.new_token
                   THEN [out_stalled EXCEPT ![i.endpoint] = FALSE]
                   ELSE out_stalled
    IN  IF i.csr.op = "stall_w"
        THEN [cleared EXCEPT ![out_epno] = (i.csr.val = 1)]
        ELSE cleared

OutStalledNext(i) ==
    LET written == IF i.csr.op = "stall_w"
                   THEN [out_stalled EXCEPT ![out_epno] = (i.csr.val = 1)]
                   ELSE out_stalled
    IN  IF i.pid = "SETUP" /\ i.new_token
        THEN [written EXCEPT ![i.endpoint] = FALSE]
        ELSE written

OutSpentNext(i) ==
    IF OutAck(i) THEN TRUE
    ELSE IF i.csr.op = "enable_w" THEN FALSE
    ELSE out_spent

OutTick(i) ==
    /\ out_fifo' = OutFifoNext(i)
    /\ out_epno' = OutEpnoNext(i)
    /\ out_enable' = OutEnableNext(i)
    /\ out_stalled' = OutStalledNext(i)
    /\ out_hs' = Handshake(OutAck(i), OutNak(i), OutStall(i))
    /\ out_spent' = OutSpentNext(i)

OutInit ==
    /\ out_fifo = <<>>
    /\ out_epno = 0
    /\ out_enable = FALSE
    /\ out_stalled = [e \in Endpoints |-> FALSE]
    /\ out_hs = NoHandshake
    /\ out_spent = FALSE

\* The manager reads new_token only together with is_setup, and the receive
\* stream and rx_ready_for_response only together with is_out: the other
\* combinations give the same tick as the input with them low
\* (OutTickInputsCover), and the next-state relation draws from the rest.
OutCanonical(i) ==
    [i EXCEPT !.new_token = (i.new_token /\ i.pid = "SETUP"),
              !.rx_ready_for_response =
                  (i.rx_ready_for_response /\ i.pid = "OUT"),
              !.rx = IF i.pid = "OUT" THEN i.rx ELSE NoByte]
OutTickInputs ==
    [pid : {"SETUP"}, endpoint : Endpoints, new_token : BOOLEAN,
     rx_ready_for_response : {FALSE}, rx : {NoByte}, csr : OutCsrOps]
    \cup [pid : {"OUT"}, endpoint : Endpoints, new_token : {FALSE},
          rx_ready_for_response : BOOLEAN, rx : Byte \cup {NoByte},
          csr : OutCsrOps]
    \cup [pid : Pids \ {"SETUP", "OUT"}, endpoint : Endpoints,
          new_token : {FALSE}, rx_ready_for_response : {FALSE},
          rx : {NoByte}, csr : OutCsrOps]

OutNext == \E i \in OutTickInputs : OutTick(i)

\* Every input gives the tick of one of OutTickInputs.
OutTickResult(i) ==
    <<OutFifoNext(i), OutEpnoNext(i), OutEnableNext(i), OutStalledNext(i),
      OutAck(i), OutNak(i), OutStall(i), OutSpentNext(i)>>
OutTickInputsCover ==
    /\ OutTickInputs = {i \in OutInputs : OutCanonical(i) = i}
    /\ \A i \in OutInputs :
          /\ OutCanonical(i) \in OutTickInputs
          /\ OutTickResult(i) = OutTickResult(OutCanonical(i))

\* --------------------------------------- OutFIFOInterface behind a host
\* An OUT transaction as the link layer delivers it: the token (new_token),
\* then the bytes of the data packet, at most OutMaxPacket of them, with the
\* token's PID and endpoint held, then rx_ready_for_response once the packet's
\* CRC has been found valid; a packet with a bad CRC gets no such strobe and
\* the next token follows.  The host's events and the controller's register
\* accesses come one to a tick.  Within a transaction the controller may
\* write the epno, enable and stall registers; it reads the data register and
\* writes the reset register between transactions.  The manager tells an OUT
\* token, a SETUP token and any other token apart, and reads the endpoint of
\* the first two.
OutMaxPacket == OutFifoDepth
OutCsrDuringTransaction ==
    {c \in OutCsrOps : c.op \in {"none", "epno_w", "enable_w", "stall_w"}}

OutHostTokens ==
    [pid : {"OUT", "SETUP"}, endpoint : Endpoints, new_token : {TRUE},
     rx_ready_for_response : {FALSE}, rx : {NoByte}, csr : {CsrNone}]
    \cup [pid : {"IN"}, endpoint : {0}, new_token : {TRUE},
          rx_ready_for_response : {FALSE}, rx : {NoByte}, csr : {CsrNone}]
OutHostQuiet ==
    [pid : {"SOF"}, endpoint : {0}, new_token : {FALSE},
     rx_ready_for_response : {FALSE}, rx : {NoByte}, csr : OutCsrOps]
OutHostData ==
    [pid : {"OUT"}, endpoint : {oh_endpoint}, new_token : {FALSE},
     rx_ready_for_response : {FALSE},
     rx : IF Len(oh_packet) < OutMaxPacket THEN Byte ELSE {},
     csr : {CsrNone}]
    \cup [pid : {"OUT"}, endpoint : {oh_endpoint}, new_token : {FALSE},
          rx_ready_for_response : {FALSE}, rx : {NoByte},
          csr : OutCsrDuringTransaction]
OutHostResponse ==
    [pid : {"OUT"}, endpoint : {oh_endpoint}, new_token : {FALSE},
     rx_ready_for_response : {TRUE}, rx : {NoByte}, csr : {CsrNone}]
OutHostInputs ==
    IF oh_phase = "data"
    THEN OutHostTokens \cup OutHostData \cup OutHostResponse
    ELSE OutHostTokens \cup OutHostQuiet

OutHostStarts(i) == i.new_token /\ i.pid = "OUT"
OhPhaseNext(i) ==
    CASE OutHostStarts(i) -> "data"
      [] i.new_token -> "idle"
      [] oh_phase = "data" /\ i.rx_ready_for_response -> "responded"
      [] oh_phase = "data" -> "data"
      [] OTHER -> "idle"
OhEndpointNext(i) ==
    CASE OutHostStarts(i) -> i.endpoint
      [] OhPhaseNext(i) = "idle" -> 0
      [] OTHER -> oh_endpoint
\* The transaction starts from the FIFO the token's tick leaves.
OhBeforeNext(i) ==
    CASE OutHostStarts(i) -> OutFifoNext(i)
      [] OhPhaseNext(i) = "idle" -> <<>>
      [] OTHER -> oh_before
OhPacketNext(i) ==
    CASE OutHostStarts(i) -> <<>>
      [] OhPhaseNext(i) = "idle" -> <<>>
      [] oh_phase = "data" /\ i.rx # NoByte -> Append(oh_packet, i.rx)
      [] OTHER -> oh_packet
OhResultNext(i) ==
    IF OhPhaseNext(i) = "responded"
    THEN Handshake(OutAck(i), OutNak(i), OutStall(i))
    ELSE NoHandshake

OutHostTick(i) ==
    /\ oh_phase' = OhPhaseNext(i)
    /\ oh_endpoint' = OhEndpointNext(i)
    /\ oh_before' = OhBeforeNext(i)
    /\ oh_packet' = OhPacketNext(i)
    /\ oh_result' = OhResultNext(i)

OutHostInit ==
    /\ oh_phase = "idle"
    /\ oh_endpoint = 0
    /\ oh_before = <<>>
    /\ oh_packet = <<>>
    /\ oh_result = NoHandshake

OutHostNext == \E i \in OutHostInputs : OutTick(i) /\ OutHostTick(i)

\* --------------------------------------------------------- InFIFOInterface
InCsrOps ==
    {CsrNone, [op |-> "reset_w", val |-> 1]}
    \cup {[op |-> "data_w", val |-> b] : b \in Byte}
    \cup {[op |-> "epno_w", val |-> e] : e \in Endpoints}
    \cup {[op |-> "stall_w", val |-> v] : v \in {0, 1}}
    \cup {[op |-> "pid_w", val |-> v] : v \in {0, 1}}
InInputs ==
    [pid : Pids, endpoint : Endpoints, new_token : BOOLEAN,
     ready_for_response : BOOLEAN, tx_ready : BOOLEAN, csr : InCsrOps]

\* The manager reads new_token only together with is_setup,
\* ready_for_response only together with is_in, and the token's endpoint only
\* for a new SETUP token, for an IN token at ready-for-response and for a write
\* of the epno register (stalled, eptri.py:314, 342): every other input gives
\* the same tick as the input with the strobes low, the PID of a
\* start-of-frame and endpoint 0 (InTickInputsCover), and the next-state
\* relation draws from the rest.
InCanonical(i) ==
    LET setup == i.new_token /\ i.pid = "SETUP"
        in == i.ready_for_response /\ i.pid = "IN"
    IN  [i EXCEPT !.new_token = setup,
                  !.ready_for_response = in,
                  !.pid = IF setup \/ in THEN i.pid ELSE "SOF",
                  !.endpoint = IF setup \/ in \/ i.csr.op = "epno_w"
                               THEN i.endpoint ELSE 0]
InEpnoWrites == {c \in InCsrOps : c.op = "epno_w"}
InTickInputs ==
    [pid : {"SETUP"}, endpoint : Endpoints, new_token : {TRUE},
     ready_for_response : {FALSE}, tx_ready : BOOLEAN, csr : InCsrOps]
    \cup [pid : {"IN"}, endpoint : Endpoints, new_token : {FALSE},
          ready_for_response : {TRUE}, tx_ready : BOOLEAN, csr : InCsrOps]
    \cup [pid : {"SOF"}, endpoint : Endpoints, new_token : {FALSE},
          ready_for_response : {FALSE}, tx_ready : BOOLEAN, csr : InEpnoWrites]
    \cup [pid : {"SOF"}, endpoint : {0}, new_token : {FALSE},
          ready_for_response : {FALSE}, tx_ready : BOOLEAN,
          csr : InCsrOps \ InEpnoWrites]

\* bytes_in_fifo is Signal(range(0, max_packet_size + 1)): it wraps at the
\* smallest power of two above max_packet_size.
RECURSIVE Pow2Above(_, _)
Pow2Above(n, p) == IF p > n THEN p ELSE Pow2Above(n, 2 * p)
InCountModulus == Pow2Above(InMaxPacketSize, 1)

InNewInToken(i) == i.pid = "IN" /\ i.ready_for_response
InEndpointMatches(i) == i.endpoint = in_epno
InStalled(i) == in_stalled[i.endpoint]

\* handshakes_out.stall and .nak; InFIFOInterface never drives .ack.
InStall(i) ==
    in_state \in {"IDLE", "PRIMED"} /\ InNewInToken(i) /\ InStalled(i)
\* Mutant: a primed manager leaves tokens to other endpoints unanswered.
InNak_IdleOnly(i) == in_state = "IDLE" /\ InNewInToken(i) /\ ~InStalled(i)

InNak(i) ==
    \/ in_state = "IDLE" /\ InNewInToken(i) /\ ~InStalled(i)
    \/ in_state = "PRIMED" /\ InNewInToken(i) /\ ~InStalled(i)
       /\ ~InEndpointMatches(i)
InAck(i) == FALSE

\* Mutant: the last byte taken to be the one after the count reaches zero.
InLastPacket_OffByOne == in_bytes_in_fifo = 0

\* The transmit stream: tx.valid, tx.first, tx.last, tx.payload.  A beat with
\* last and without first is how a zero-length packet is handed over.
InLastPacket == in_bytes_in_fifo = 1
InFifoRData == IF FifoRRdy(in_fifo) THEN Head(in_fifo) ELSE NoByte
InTxValid == in_state \in {"SEND_ZLP", "SEND_DATA"}
InTxLast == in_state = "SEND_ZLP" \/ (in_state = "SEND_DATA" /\ InLastPacket)
InTxPayload == IF in_state = "SEND_DATA" THEN InFifoRData ELSE NoByte
InTxBeat == [payload |-> InTxPayload, first |-> in_tx_first, last |-> InTxLast]
InTxToggle == in_pid

InFifoWEn(i) == i.csr.op = "data_w"
InFifoREn(i) == in_state = "SEND_DATA" /\ i.tx_ready
InFifoReset(i) == i.csr.op = "reset_w"
InHave == FifoRRdy(in_fifo)
InIdle == in_state = "IDLE"

InFifoNext(i) ==
    FifoNext(in_fifo, InMaxPacketSize, InFifoReset(i),
             InFifoWEn(i), i.csr.val, InFifoREn(i))

\* Mutant: the count follows every write of the data register.
InBytesInFifoNext_Ungated(i) ==
    LET increment == InFifoWEn(i)
        decrement == InFifoREn(i) /\ FifoRRdy(in_fifo)
    IN  IF InFifoReset(i) THEN 0
        ELSE IF increment /\ ~decrement
             THEN (in_bytes_in_fifo + 1) % InCountModulus
        ELSE IF decrement /\ ~increment
             THEN (in_bytes_in_fifo + InCountModulus - 1) % InCountModulus
        ELSE in_bytes_in_fifo

InBytesInFifoNext(i) ==
    LET increment == InFifoWEn(i) /\ FifoWRdy(in_fifo, InMaxPacketSize)
        decrement == InFifoREn(i) /\ FifoRRdy(in_fifo)
    IN  IF InFifoReset(i) THEN 0
        ELSE IF increment /\ ~decrement
             THEN (in_bytes_in_fifo + 1) % InCountModulus
        ELSE IF decrement /\ ~increment
             THEN (in_bytes_in_fifo + InCountModulus - 1) % InCountModulus
        ELSE in_bytes_in_fifo

InEpnoNext(i) == IF i.csr.op = "epno_w" THEN i.csr.val ELSE in_epno

\* Mutant: only endpoint 0 is un-stalled by a SETUP token.
InStalledNext_Ep0Only(i) ==
    LET written == IF i.csr.op = "stall_w"
                   THEN [in_stalled EXCEPT ![in_epno] = (i.csr.val = 1)]
                   ELSE in_stalled
    IN  IF i.pid = "SETUP" /\ i.new_token /\ i.endpoint = 0
        THEN [written EXCEPT ![i.endpoint] = FALSE]
        ELSE written

InStalledNext(i) ==
    LET written == IF i.csr.op = "stall_w"
                   THEN [in_stalled EXCEPT ![in_epno] = (i.csr.val = 1)]
                   ELSE in_stalled
    IN  IF i.pid = "SETUP" /\ i.new_token
        THEN [written EXCEPT ![i.endpoint] = FALSE]
        ELSE written

\* Mutant: a completed transmission advances the toggle by itself.
InPidNext_AutoToggle(i) ==
    IF i.csr.op = "pid_w" THEN i.csr.val
    ELSE IF in_state = "SEND_DATA" /\ InLastPacket /\ i.tx_ready THEN 1 - in_pid
    ELSE in_pid

InPidNext(i) == IF i.csr.op = "pid_w" THEN i.csr.val ELSE in_pid

\* Mutant: PRIMED tests the endpoint match before the stall flag.
InStateNext_MatchFirst(i) ==
    CASE in_state = "IDLE" ->
            IF i.csr.op = "epno_w" /\ ~InStalled(i) THEN "PRIMED" ELSE "IDLE"
      [] in_state = "PRIMED" ->
            IF InNewInToken(i) /\ InEndpointMatches(i)
            THEN IF ~FifoRRdy(in_fifo) THEN "SEND_ZLP" ELSE "SEND_DATA"
            ELSE "PRIMED"
      [] in_state = "SEND_ZLP" -> "IDLE"
      [] in_state = "SEND_DATA" ->
            IF InLastPacket /\ i.tx_ready THEN "IDLE" ELSE "SEND_DATA"

\* Mutant: SEND_ZLP waits for tx.ready like SEND_DATA does.
InStateNext_ZlpWaits(i) ==
    CASE in_state = "IDLE" ->
            IF i.csr.op = "epno_w" /\ ~InStalled(i) THEN "PRIMED" ELSE "IDLE"
      [] in_state = "PRIMED" ->
            IF InNewInToken(i) /\ ~InStalled(i) /\ InEndpointMatches(i)
            THEN IF ~FifoRRdy(in_fifo) THEN "SEND_ZLP" ELSE "SEND_DATA"
            ELSE "PRIMED"
      [] in_state = "SEND_ZLP" -> IF i.tx_ready THEN "IDLE" ELSE "SEND_ZLP"
      [] in_state = "SEND_DATA" ->
            IF InLastPacket /\ i.tx_ready THEN "IDLE" ELSE "SEND_DATA"

InStateNext(i) ==
    CASE in_state = "IDLE" ->
            IF i.csr.op = "epno_w" /\ ~InStalled(i) THEN "PRIMED" ELSE "IDLE"
      [] in_state = "PRIMED" ->
            IF InNewInToken(i) /\ ~InStalled(i) /\ InEndpointMatches(i)
            THEN IF ~FifoRRdy(in_fifo) THEN "SEND_ZLP" ELSE "SEND_DATA"
            ELSE "PRIMED"
      [] in_state = "SEND_ZLP" -> "IDLE"
      [] in_state = "SEND_DATA" ->
            IF InLastPacket /\ i.tx_ready THEN "IDLE" ELSE "SEND_DATA"

InTxFirstNext(i) ==
    CASE in_state = "PRIMED" /\ InStateNext(i) = "SEND_DATA" -> TRUE
      [] in_state = "SEND_DATA" /\ i.tx_ready -> FALSE
      [] OTHER -> in_tx_first

\* What the link layer has been handed: a beat of SEND_DATA counts when
\* tx.ready takes it, the beat of SEND_ZLP is up for its one tick.
InDisturbs(i) == i.csr.op \in {"data_w", "reset_w"}
InTrackNext(i) ==
    CASE in_state = "PRIMED" /\ InStateNext(i) = "SEND_ZLP" -> "sending"
      [] in_state = "PRIMED" /\ InStateNext(i) = "SEND_DATA" ->
            IF InFifoReset(i) THEN "disturbed" ELSE "sending"
      [] in_state = "SEND_ZLP" -> "sent"
      [] in_state = "SEND_DATA" ->
            IF InDisturbs(i) \/ in_track = "disturbed"
            THEN IF InStateNext(i) = "IDLE" THEN "none" ELSE "disturbed"
            ELSE IF InStateNext(i) = "IDLE" THEN "sent" ELSE "sending"
      [] OTHER -> IF i.csr.op = "none" THEN in_track ELSE "none"
InPacketNext(i) ==
    CASE InTrackNext(i) \in {"none", "disturbed"} -> <<>>
      [] in_state = "PRIMED" /\ InStateNext(i) = "SEND_ZLP" -> <<>>
      [] in_state = "PRIMED" /\ InStateNext(i) = "SEND_DATA" -> InFifoNext(i)
      [] OTHER -> in_packet
InSentNext(i) ==
    CASE InTrackNext(i) \in {"none", "disturbed"} -> <<>>
      [] in_state = "PRIMED" /\ InTrackNext(i) = "sending" -> <<>>
      [] in_state = "SEND_ZLP" -> Append(in_sent, InTxBeat)
      [] in_state = "SEND_DATA" /\ i.tx_ready -> Append(in_sent, InTxBeat)
      [] OTHER -> in_sent

\* The controller has reset the FIFO and has not primed since.
InClearedNext(i) ==
    CASE i.csr.op = "reset_w" -> TRUE
      [] i.csr.op = "epno_w" -> FALSE
      [] OTHER -> in_cleared

InTick(i) ==
    /\ in_fifo' = InFifoNext(i)
    /\ in_bytes_in_fifo' = InBytesInFifoNext(i)
    /\ in_epno' = InEpnoNext(i)
    /\ in_stalled' = InStalledNext(i)
    /\ in_pid' = InPidNext(i)
    /\ in_state' = InStateNext(i)
    /\ in_tx_first' = InTxFirstNext(i)
    /\ in_hs' = Handshake(InAck(i), InNak(i), InStall(i))
    /\ in_track' = InTrackNext(i)
    /\ in_packet' = InPacketNext(i)
    /\ in_sent' = InSentNext(i)
    /\ in_cleared' = InClearedNext(i)

InInit ==
    /\ in_fifo = <<>>
    /\ in_bytes_in_fifo = 0
    /\ in_epno = 0
    /\ in_stalled = [e \in Endpoints |-> FALSE]
    /\ in_pid = 0
    /\ in_state = "IDLE"
    /\ in_tx_first = FALSE
    /\ in_hs = NoHandshake
    /\ in_track = "none"
    /\ in_packet = <<>>
    /\ in_sent = <<>>
    /\ in_cleared = FALSE

InNext == \E i \in InTickInputs : InTick(i)

\* Every input gives the tick of one of InTickInputs.
InTickResult(i) ==
    <<InFifoNext(i), InBytesInFifoNext(i), InEpnoNext(i), InStalledNext(i),
      InPidNext(i), InStateNext(i), InTxFirstNext(i), InAck(i), InNak(i),
      InStall(i), InFifoREn(i), InTrackNext(i), InPacketNext(i), InSentNext(i),
      InClearedNext(i)>>
InTickInputsCover ==
    /\ InTickInputs = {i \in InInputs : InCanonical(i) = i}
    /\ \A i \in InInputs :
          /\ InCanonical(i) \in InTickInputs
          /\ InTickResult(i) = InTickResult(InCanonical(i))

\* ---------------------------------------------------- USBStreamOutEndpoint
\* endpoint_number, a constructor parameter.
StreamEndpointNumber == 1
\* buffer_size: twice the maximum packet size unless given.
StreamBufferSize == StreamMaxPacketSize * 2

\* The inputs of one tick: the tokenizer's token and its ready_for_response
\* strobe, the receiver's rx_ready_for_response strobe and data PID toggle,
\* the boundary detector's processed stream (a byte or none) and its
\* complete_out / invalid_out strobes (rx_end), and the consumer's
\* stream.ready.
StreamOutInputs ==
    [pid : Pids, endpoint : Endpoints, ready_for_response : BOOLEAN,
     rx_ready_for_response : BOOLEAN, rx_pid_toggle : {0, 1},
     rx : Byte \cup {NoByte}, rx_end : {"none", "complete", "invalid"},
     stream_ready : BOOLEAN]

StreamEndpointNumberMatches(i) == i.endpoint = StreamEndpointNumber
StreamTargetingEndpoint(i) == StreamEndpointNumberMatches(i) /\ i.pid = "OUT"
StreamExpectedPidMatch(i) == i.rx_pid_toggle = expected_data_toggle

\* TransactionalizedFIFO: space_available and empty.
StreamSpaceAvailable == StreamBufferSize - (Len(rx_committed) + Len(rx_pending))
StreamFifoEmpty == rx_committed = <<>>

\* Mutant: any free element counts as room for a packet.
StreamSufficientSpace_AnyRoom == StreamSpaceAvailable >= 1
StreamSufficientSpace == StreamSpaceAvailable >= StreamMaxPacketSize

StreamPingResponseRequested(i) ==
    StreamEndpointNumberMatches(i) /\ i.pid = "PING" /\ i.ready_for_response
StreamDataResponseRequested(i) ==
    StreamTargetingEndpoint(i) /\ i.pid = "OUT" /\ i.rx_ready_for_response

\* Mutant: the data toggle is not compared.
StreamOkayToReceive_AnyToggle(i) ==
    StreamTargetingEndpoint(i) /\ StreamSufficientSpace
StreamOkayToReceive(i) ==
    StreamTargetingEndpoint(i) /\ StreamSufficientSpace
        /\ StreamExpectedPidMatch(i)
StreamShouldSkip(i) == StreamTargetingEndpoint(i) /\ ~StreamExpectedPidMatch(i)

StreamFifoWriteEn(i) == StreamOkayToReceive(i) /\ i.rx # NoByte
\* Mutant: the run is committed however the packet ends.
StreamFifoWriteCommit_AnyEnd(i) ==
    StreamTargetingEndpoint(i) /\ i.rx_end # "none"
StreamFifoWriteCommit(i) == StreamTargetingEndpoint(i) /\ i.rx_end = "complete"
StreamFifoWriteDiscard(i) == StreamTargetingEndpoint(i) /\ i.rx_end = "invalid"
StreamFifoReadEn(i) == i.stream_ready

StreamAck(i) ==
    \/ StreamDataResponseRequested(i) /\ StreamOkayToReceive(i)
    \/ StreamPingResponseRequested(i) /\ StreamOkayToReceive(i)
    \/ StreamDataResponseRequested(i) /\ StreamShouldSkip(i)
StreamNak(i) ==
    \/ StreamDataResponseRequested(i) /\ ~StreamOkayToReceive(i)
            /\ ~StreamShouldSkip(i)
    \/ StreamPingResponseRequested(i) /\ ~StreamOkayToReceive(i)
\* handshakes_out.stall has no driver.
StreamStall(i) == FALSE

\* The output stream.
StreamValid == ~StreamFifoEmpty
StreamPayload == IF StreamFifoEmpty THEN NoByte ELSE Head(rx_committed)

\* TransactionalizedFIFO, one tick.  A read pops the oldest committed byte; a
\* write appends to the uncommitted run unless the FIFO is full; a commit
\* makes the run written before this tick readable; a discard drops the run,
\* the byte of this tick included.
StreamRead(i) ==
    IF StreamFifoReadEn(i) /\ ~StreamFifoEmpty
    THEN Tail(rx_committed) ELSE rx_committed
StreamWritten(i) ==
    IF StreamFifoWriteEn(i) /\ StreamSpaceAvailable > 0 THEN <<i.rx>> ELSE <<>>
\* Mutant: the run is readable as soon as it is written.
RxCommittedNext_Untransacted(i) == StreamRead(i) \o rx_pending
RxCommittedNext(i) ==
    IF StreamFifoWriteCommit(i) THEN StreamRead(i) \o rx_pending
    ELSE StreamRead(i)
RxPendingNext(i) ==
    IF StreamFifoWriteCommit(i) THEN StreamWritten(i)
    ELSE IF StreamFifoWriteDiscard(i) THEN <<>>
    ELSE rx_pending \o StreamWritten(i)

\* Mutant: the toggle follows every ACK of a data packet.
ExpectedDataToggleNext_EveryAck(i) ==
    IF StreamDataResponseRequested(i) /\ StreamAck(i)
    THEN 1 - expected_data_toggle ELSE expected_data_toggle
ExpectedDataToggleNext(i) ==
    IF StreamDataResponseRequested(i) /\ StreamOkayToReceive(i)
    THEN 1 - expected_data_toggle ELSE expected_data_toggle

StreamOutTick(i) ==
    /\ rx_committed' = RxCommittedNext(i)
    /\ rx_pending' = RxPendingNext(i)
    /\ expected_data_toggle' = ExpectedDataToggleNext(i)
    /\ stream_hs' = Handshake(StreamAck(i), StreamNak(i), StreamStall(i))
    /\ stream_reack' = (StreamDataResponseRequested(i) /\ StreamShouldSkip(i))

StreamOutInit ==
    /\ rx_committed = <<>>
    /\ rx_pending = <<>>
    /\ expected_data_toggle = 0
    /\ stream_hs = NoHandshake
    /\ stream_reack = FALSE

\* The adapter reads the receive side (data PID, processed stream, end
\* strobes, rx_ready_for_response) only under an OUT token to its endpoint,
\* and ready_for_response only under a PING token to its endpoint: the other
\* combinations give the same tick as the input with them low
\* (StreamTickInputsCover), and the next-state relation draws from the rest.
StreamCanonical(i) ==
    IF StreamTargetingEndpoint(i)
    THEN [i EXCEPT !.ready_for_response = FALSE]
    ELSE [i EXCEPT !.ready_for_response =
                       (i.ready_for_response /\ i.pid = "PING"
                            /\ StreamEndpointNumberMatches(i)),
                   !.rx_ready_for_response = FALSE,
                   !.rx_pid_toggle = 0,
                   !.rx = NoByte,
                   !.rx_end = "none"]
StreamTickInputs ==
    [pid : {"OUT"}, endpoint : {StreamEndpointNumber},
     ready_for_response : {FALSE}, rx_ready_for_response : BOOLEAN,
     rx_pid_toggle : {0, 1}, rx : Byte \cup {NoByte},
     rx_end : {"none", "complete", "invalid"}, stream_ready : BOOLEAN]
    \cup [pid : {"PING"}, endpoint : {StreamEndpointNumber},
          ready_for_response : {TRUE}, rx_ready_for_response : {FALSE},
          rx_pid_toggle : {0}, rx : {NoByte}, rx_end : {"none"},
          stream_ready : BOOLEAN]
    \cup {i \in [pid : Pids, endpoint : Endpoints,
                  ready_for_response : {FALSE},
                  rx_ready_for_response : {FALSE}, rx_pid_toggle : {0},
                  rx : {NoByte}, rx_end : {"none"}, stream_ready : BOOLEAN] :
              ~StreamTargetingEndpoint(i)}

StreamOutNext == \E i \in StreamTickInputs : StreamOutTick(i)

\* Every input gives the tick of one of StreamTickInputs.
StreamTickResult(i) ==
    <<RxCommittedNext(i), RxPendingNext(i), ExpectedDataToggleNext(i),
      StreamAck(i), StreamNak(i), StreamStall(i),
      StreamDataResponseRequested(i) /\ StreamShouldSkip(i)>>
StreamTickInputsCover ==
    /\ StreamTickInputs = {i \in StreamOutInputs : StreamCanonical(i) = i}
    /\ \A i \in StreamOutInputs :
          /\ StreamCanonical(i) \in StreamTickInputs
          /\ StreamTickResult(i) = StreamTickResult(StreamCanonical(i))

\* ----------------------------------------------------- USBStreamInEndpoint
\* endpoint_number, a constructor parameter; max_packet_size is
\* StreamMaxPacketSize.
StreamInEndpointNumber == 1

\* Mutant: the transfer manager is left to end records without a ZLP.
StreamInGenerateZlps_Off == FALSE

\* tx_manager.generate_zlps and tx_manager.active
StreamInGenerateZlps == TRUE
StreamInActive(i) == i.endpoint = StreamInEndpointNumber

\* One event per tick: a beat of the input stream (a byte, with or without
\* the end-of-record marker), an IN token, the host's ACK of the packet just
\* sent, or the end of the wait for it (the ACK or the packet was lost).
StreamInInputs ==
    [kind : {"beat"}, payload : Byte, last : BOOLEAN, endpoint : {0}]
    \cup [kind : {"in_token"}, payload : {0}, last : {FALSE},
          endpoint : Endpoints]
    \cup [kind : {"ack", "timeout"}, payload : {0}, last : {FALSE},
          endpoint : {0}]

NoPacket == [bytes |-> <<>>, last |-> FALSE]
ZeroLengthPacket == [bytes |-> <<>>, last |-> TRUE]

\* The transfer manager: it assembles a packet from the input stream until
\* max_packet_size bytes are in or the record ends, offers it to the host on
\* the IN tokens it is active for, repeats it until the host's ACK, and
\* follows a full-size packet that ended a record with a zero-length packet
\* when generate_zlps is set.  It is double-buffered: the next packet is
\* assembled while the offered one is on its way.
TmWriteComplete(w) == w.last \/ Len(w.bytes) = StreamMaxPacketSize
TmManager ==
    [write |-> tm_write, read |-> tm_read, state |-> tm_state,
     zlp_due |-> tm_zlp_due, data_pid |-> tm_data_pid]
TmProcess(m, i) ==
    CASE i.kind = "beat" /\ ~TmWriteComplete(m.write) ->
            [m EXCEPT !.write = [bytes |-> Append(m.write.bytes, i.payload),
                                 last |-> i.last]]
      [] i.kind = "in_token" /\ StreamInActive(i)
             /\ m.state = "WAIT_TO_SEND" ->
            [m EXCEPT !.state = "WAIT_FOR_ACK"]
      [] i.kind = "ack" /\ m.state = "WAIT_FOR_ACK" ->
            IF m.zlp_due
            THEN [m EXCEPT !.read = ZeroLengthPacket,
                           !.state = "WAIT_TO_SEND",
                           !.zlp_due = FALSE,
                           !.data_pid = 1 - m.data_pid]
            ELSE [m EXCEPT !.read = NoPacket,
                           !.state = "WAIT_FOR_DATA",
                           !.data_pid = 1 - m.data_pid]
      [] i.kind = "timeout" /\ m.state = "WAIT_FOR_ACK" ->
            [m EXCEPT !.state = "WAIT_TO_SEND"]
      [] OTHER -> m
\* The buffers swap as soon as a packet is complete and none is on offer.
TmSwap(m) ==
    IF m.state = "WAIT_FOR_DATA" /\ TmWriteComplete(m.write)
    THEN [m EXCEPT !.write = NoPacket,
                   !.read = m.write,
                   !.state = "WAIT_TO_SEND",
                   !.zlp_due = (StreamInGenerateZlps /\ m.write.last
                                   /\ Len(m.write.bytes) = StreamMaxPacketSize)]
    ELSE m
TmNext(i) == TmSwap(TmProcess(TmManager, i))

\* handshakes_out.nak: an IN token the manager is active for and has no
\* packet for.
StreamInNak(i) ==
    i.kind = "in_token" /\ StreamInActive(i) /\ tm_state = "WAIT_FOR_DATA"

\* What the host has got: its ACK of a full-size packet that ended a record
\* leaves a zero-length packet owed, its ACK of any other packet none.
TxOwedNext(i) ==
    IF i.kind = "ack" /\ tm_state = "WAIT_FOR_ACK"
    THEN tm_read.last /\ Len(tm_read.bytes) = StreamMaxPacketSize
    ELSE tx_owed

StreamInTick(i) ==
    /\ tm_write' = TmNext(i).write
    /\ tm_read' = TmNext(i).read
    /\ tm_state' = TmNext(i).state
    /\ tm_zlp_due' = TmNext(i).zlp_due
    /\ tm_data_pid' = TmNext(i).data_pid
    /\ tx_owed' = TxOwedNext(i)

StreamInInit ==
    /\ tm_write = NoPacket
    /\ tm_read = NoPacket
    /\ tm_state = "WAIT_FOR_DATA"
    /\ tm_zlp_due = FALSE
    /\ tm_data_pid = 0
    /\ tx_owed = FALSE

StreamInNext == \E i \in StreamInInputs : StreamInTick(i)

\* ------------------------------------- USBStreamOutEndpoint behind a host
\* The link layer's side of EndpointInterface, transaction by transaction:
\* the token is stable over a transaction; the data packet of an OUT
\* transaction has one data PID, delivers at most max_packet_size bytes on
\* the processed stream and ends in complete_out or in invalid_out; the link
\* layer raises rx_ready_for_response for one tick, some ticks after a packet
\* whose CRC was valid, and never after an invalid one.  The consumer drives
\* stream.ready as it likes.
HostQuiet(i) ==
    /\ i.rx = NoByte
    /\ i.rx_end = "none"
    /\ ~i.rx_ready_for_response

\* The inputs the link layer can present in the present phase.  Between
\* packets: any token and its ready_for_response; a packet starts with the OUT
\* token to the adapter's endpoint.
HostIdleInputs ==
    {i \in StreamOutInputs :
        /\ HostQuiet(i)
        /\ i.ready_for_response => i.pid # "OUT"}
\* During the transaction the token and the data PID stay.
HostPacketInputs ==
    [pid : {"OUT"}, endpoint : {StreamEndpointNumber},
     ready_for_response : {FALSE}, rx_ready_for_response : BOOLEAN,
     rx_pid_toggle : {host_toggle}, rx : Byte \cup {NoByte},
     rx_end : {"none", "complete", "invalid"}, stream_ready : BOOLEAN]
HostInputs ==
    CASE host_phase = "idle" -> HostIdleInputs
      [] host_phase = "data" ->
            {i \in HostPacketInputs :
                /\ ~i.rx_ready_for_response
                /\ i.rx = NoByte \/ i.rx_end = "none"
                /\ i.rx # NoByte => Len(host_packet) < StreamMaxPacketSize}
      [] host_phase = "response" ->
            {i \in HostPacketInputs : i.rx = NoByte /\ i.rx_end = "none"}

HostStartsPacket(i) ==
    host_phase = "idle" /\ i.pid = "OUT" /\ i.endpoint = StreamEndpointNumber

HostPhaseNext(i) ==
    CASE host_phase = "idle" -> IF HostStartsPacket(i) THEN "data" ELSE "idle"
      [] host_phase = "data" ->
            IF i.rx_end = "complete" THEN "response"
            ELSE IF i.rx_end = "invalid" THEN "idle" ELSE "data"
      [] host_phase = "response" ->
            IF i.rx_ready_for_response THEN "idle" ELSE "response"
HostToggleNext(i) == IF HostStartsPacket(i) THEN i.rx_pid_toggle ELSE host_toggle
HostPacketNext(i) ==
    IF HostStartsPacket(i) THEN <<>>
    ELSE IF host_phase = "data" /\ i.rx # NoByte THEN Append(host_packet, i.rx)
    ELSE host_packet
HostEndNext(i) ==
    IF HostStartsPacket(i) THEN "none"
    ELSE IF host_phase = "data" /\ i.rx_end # "none" THEN i.rx_end
    ELSE host_end
HostRunNext(i) ==
    IF HostStartsPacket(i) THEN <<>>
    ELSE IF host_phase = "data" /\ i.rx_end # "none" THEN rx_pending
    ELSE host_run

HostTick(i) ==
    /\ host_phase' = HostPhaseNext(i)
    /\ host_toggle' = HostToggleNext(i)
    /\ host_packet' = HostPacketNext(i)
    /\ host_end' = HostEndNext(i)
    /\ host_run' = HostRunNext(i)

HostInit ==
    /\ host_phase = "idle"
    /\ host_toggle = 0
    /\ host_packet = <<>>
    /\ host_end = "none"
    /\ host_run = <<>>

StreamHostNext == \E i \in HostInputs : StreamOutTick(i) /\ HostTick(i)

\* ------------------------------------------------------------ specifications
Init ==
    /\ SetupInit /\ OutInit /\ InInit /\ StreamOutInit
    /\ HostInit /\ SetupHostInit /\ OutHostInit /\ StreamInInit

NextSetup ==
    SetupNext
    /\ UNCHANGED <<outVars, inVars, streamOutVars, hostVars, ctlVars, ohVars,
                 streamInVars>>
NextOut ==
    OutNext
    /\ UNCHANGED <<setupVars, inVars, streamOutVars, hostVars, ctlVars, ohVars,
                 streamInVars>>
NextIn ==
    InNext
    /\ UNCHANGED <<setupVars, outVars, streamOutVars, hostVars, ctlVars, ohVars,
                 streamInVars>>
NextStreamOut ==
    StreamOutNext
    /\ UNCHANGED <<setupVars, outVars, inVars, hostVars, ctlVars, ohVars,
                 streamInVars>>
NextStreamHost ==
    StreamHostNext
    /\ UNCHANGED <<setupVars, outVars, inVars, ctlVars, ohVars,
                 streamInVars>>
NextSetupHost ==
    SetupHostNext
    /\ UNCHANGED <<outVars, inVars, streamOutVars, hostVars, ohVars,
                 streamInVars>>
NextOutHost ==
    OutHostNext
    /\ UNCHANGED <<setupVars, inVars, streamOutVars, hostVars, ctlVars,
                 streamInVars>>
NextStreamIn ==
    StreamInNext
    /\ UNCHANGED <<setupVars, outVars, inVars, streamOutVars, hostVars,
                 ctlVars, ohVars>>

\* The IN manager while the link layer keeps accepting: the controller writes
\* no data while a packet is going out (every other register write, the
\* FIFO reset included, stays possible), and a tick in which the link layer
\* is ready and the controller is idle comes again and again.
InLiveInputs ==
    {i \in InTickInputs : in_state = "SEND_DATA" => i.csr.op # "data_w"}
InLiveNext == \E i \in InLiveInputs : InTick(i)
InLinkAccepts ==
    \E i \in InTickInputs :
        /\ i.tx_ready /\ i.csr = CsrNone /\ i.pid = "SOF"
        /\ InTick(i)
        /\ UNCHANGED <<setupVars, outVars, streamOutVars, hostVars, ctlVars,
                       ohVars, streamInVars>>
NextInLive ==
    InLiveNext
    /\ UNCHANGED <<setupVars, outVars, streamOutVars, hostVars, ctlVars, ohVars,
                 streamInVars>>

SpecSetup == Init /\ [][NextSetup]_vars
SpecOut == Init /\ [][NextOut]_vars
SpecIn == Init /\ [][NextIn]_vars
SpecStreamOut == Init /\ [][NextStreamOut]_vars
SpecStreamHost == Init /\ [][NextStreamHost]_vars
SpecSetupHost == Init /\ [][NextSetupHost]_vars
SpecOutHost == Init /\ [][NextOutHost]_vars
SpecStreamIn == Init /\ [][NextStreamIn]_vars
SpecInLive == Init /\ [][NextInLive]_vars /\ WF_vars(InLinkAccepts)

\* The four managers side by side.  They share no register, so a property of
\* one manager's registers holds in their product exactly if it holds while
\* the others stand still: a manager ticks while the others are as reset left
\* them.
NextManagers ==
    \/ OutInit /\ InInit /\ StreamOutInit /\ NextSetup
    \/ SetupInit /\ InInit /\ StreamOutInit /\ NextOut
    \/ SetupInit /\ OutInit /\ StreamOutInit /\ NextIn
    \/ SetupInit /\ OutInit /\ InInit /\ NextStreamOut
SpecManagers == Init /\ [][NextManagers]_vars

\* ================================================================== claims

\* C1: in every reachable state of the SETUP capture (FIFO full or empty, any
\* earlier tokens), a tick whose token is SETUP and in which the link layer
\* signals ready-for-response asserts ACK, and no tick asserts NAK or STALL.
C1_SetupAlwaysAcked ==
    /\ \A i \in SetupInputs :
          /\ (i.pid = "SETUP" /\ i.rx_ready_for_response) => SetupAck(i)
          /\ ~SetupNak(i)
          /\ ~SetupStall(i)
    /\ ~setup_hs.nak
    /\ ~setup_hs.stall

\* A SETUP has been ACKed and the FIFO is full.
C1_Witness == setup_hs.ack /\ Len(setup_fifo) = SetupFifoDepth

\* The handshake the OUT manager is to give an OUT token to endpoint e.
C2_Decision(e) ==
    IF out_stalled[e] THEN "STALL"
    ELSE IF e = out_epno /\ out_enable THEN "ACK"
    ELSE "NAK"

\* C2: for every OUT token at ready-for-response the OUT manager asserts exactly
\* one handshake line: STALL if the stall flag of the token's endpoint is set,
\* else ACK if that endpoint is the selected one and the manager is armed, else
\* NAK.
C2_OutHandshakeDecision ==
    \A i \in OutInputs :
        (i.pid = "OUT" /\ i.rx_ready_for_response) =>
            Handshake(OutAck(i), OutNak(i), OutStall(i))
                = Handshake(C2_Decision(i.endpoint) = "ACK",
                            C2_Decision(i.endpoint) = "NAK",
                            C2_Decision(i.endpoint) = "STALL")

\* STALL was answered while the manager is armed for a selected endpoint that
\* is not stalled: the stalled endpoint is another one.
C2_Witness ==
    /\ out_hs.stall
    /\ out_enable
    /\ ~out_stalled[out_epno]
    /\ \E e \in Endpoints : out_stalled[e]

\* The OUT tokens to the selected endpoint that ask for a handshake.
C3_TokensToSelected ==
    {i \in OutInputs :
        i.pid = "OUT" /\ i.rx_ready_for_response /\ i.endpoint = out_epno}

\* C3 as stated: after an ACK and until the controller writes enable again, the
\* armed flag is clear and every OUT token to the selected endpoint is NAKed.
C3_OneShotAlwaysNak ==
    out_spent =>
        /\ ~out_enable
        /\ \A i \in C3_TokensToSelected : OutNak(i) /\ ~OutAck(i)

\* C3 as amended: after an ACK (also one that coincides with an enable write)
\* and until the controller writes enable again, the armed flag is clear and
\* no OUT token to the selected endpoint is ACKed: it is NAKed, or STALLed if
\* the controller has stalled that endpoint in the meantime.
C3_OneShotNeverAck ==
    out_spent =>
        /\ ~out_enable
        /\ \A i \in C3_TokensToSelected :
              /\ ~OutAck(i)
              /\ OutNak(i) = ~out_stalled[out_epno]
              /\ OutStall(i) = out_stalled[out_epno]

\* The tick after the ACK of a packet: the armed flag is spent, a packet byte
\* is buffered and the next token to the selected endpoint would be NAKed.
C3_Witness ==
    /\ out_spent
    /\ out_hs.ack
    /\ out_fifo # <<>>
    /\ \A i \in C3_TokensToSelected : OutNak(i)

\* C4: in IDLE and in PRIMED, an IN token at ready-for-response that targets an
\* endpoint whose stall flag is set is answered STALL: NAK is not asserted, the
\* FSM does not go to SEND_ZLP or SEND_DATA, nothing is put on tx and no byte
\* leaves the FIFO, also when a packet is queued and primed for that endpoint.
C4_InStallPrecedence ==
    in_state \in {"IDLE", "PRIMED"} =>
        \A i \in InInputs :
            (i.pid = "IN" /\ i.ready_for_response /\ in_stalled[i.endpoint]) =>
                /\ InStall(i)
                /\ ~InNak(i)
                /\ ~InAck(i)
                /\ InStateNext(i) \notin {"SEND_ZLP", "SEND_DATA"}
                /\ ~InTxValid
                /\ ~InFifoREn(i)
                /\ InFifoNext(i) \in {in_fifo, <<>>}
                        \cup {Append(in_fifo, b) : b \in Byte}

\* STALL was answered while a packet is queued and primed for the stalled
\* endpoint, and the packet is still queued.
C4_Witness ==
    /\ in_hs.stall
    /\ in_state = "PRIMED"
    /\ in_stalled[in_epno]
    /\ Len(in_fifo) = InMaxPacketSize

\* The IN tokens to endpoint e that ask for a response.
InTokensTo(e) ==
    {i \in InInputs : i.pid = "IN" /\ i.ready_for_response /\ i.endpoint = e}

\* The beat that hands a zero-length packet to the link layer.
ZlpBeat == [payload |-> NoByte, first |-> FALSE, last |-> TRUE]

\* C5: primed with zero bytes queued, an IN token to the primed, non-stalled
\* endpoint takes the FSM to SEND_ZLP; SEND_ZLP puts one beat with no payload
\* and the end-of-packet marker on tx, reads no byte from the FIFO and goes to
\* IDLE in one tick whether or not tx.ready is high; the whole transmission is
\* that one beat, and nothing is on tx once the FSM is back in IDLE.
C5_ZlpGeneration ==
    /\ (in_state = "PRIMED" /\ in_fifo = <<>> /\ ~in_stalled[in_epno]) =>
          \A i \in InTokensTo(in_epno) : InStateNext(i) = "SEND_ZLP"
    /\ in_state = "SEND_ZLP" =>
          /\ InTxValid
          /\ InTxBeat = ZlpBeat
          /\ \A i \in InInputs : InStateNext(i) = "IDLE" /\ ~InFifoREn(i)
    /\ (in_track = "sent" /\ in_packet = <<>>) =>
          /\ in_state = "IDLE"
          /\ in_sent = <<ZlpBeat>>
          /\ ~InTxValid

\* A zero-length packet has been transmitted and the FSM is back in IDLE.
C5_Witness == in_track = "sent" /\ in_packet = <<>> /\ in_state = "IDLE"

\* The payload bytes of a sequence of beats.
Payloads(beats) == [k \in 1..Len(beats) |-> beats[k].payload]

\* What C6 says of a transmission once it has started: while the packet is on
\* its way (and the controller writes neither data nor reset), the beats sent
\* so far followed by the FIFO are the packet, tx carries the oldest byte with
\* first on the first beat only and last on the last byte only; when the last
\* byte is taken the FSM is in IDLE, the FIFO is empty and the beats sent are
\* the packet, first marked on beat 1 only and last on beat n only.
C6_Emission ==
    /\ (in_track = "sending" /\ in_state = "SEND_DATA") =>
          /\ in_fifo # <<>>
          /\ in_bytes_in_fifo = Len(in_fifo)
          /\ Payloads(in_sent) \o in_fifo = in_packet
          /\ \A k \in 1..Len(in_sent) :
                in_sent[k].first = (k = 1) /\ ~in_sent[k].last
          /\ InTxValid
          /\ InTxBeat = [payload |-> Head(in_fifo),
                         first |-> (in_sent = <<>>),
                         last |-> (Len(in_fifo) = 1)]
    /\ (in_track = "sent" /\ in_packet # <<>>) =>
          /\ in_state = "IDLE"
          /\ in_fifo = <<>>
          /\ ~InTxValid
          /\ Len(in_packet) \in 1..InMaxPacketSize
          /\ Payloads(in_sent) = in_packet
          /\ \A k \in 1..Len(in_sent) :
                /\ in_sent[k].first = (k = 1)
                /\ in_sent[k].last = (k = Len(in_packet))

\* The packet of n >= 1 bytes queued in PRIMED starts its transmission on the
\* given token: the FSM goes to SEND_DATA with tx.first set, and the packet to
\* send is the FIFO (with the byte the controller writes in that very tick).
C6_Starts(i) ==
    /\ InStateNext(i) = "SEND_DATA"
    /\ InTxFirstNext(i)
    /\ ~InFifoReset(i) =>
          \E tail \in {<<>>} \cup {<<b>> : b \in Byte} :
              InPacketNext(i) = in_fifo \o tail

StreamOutTicks ==
    {i \in StreamOutInputs :
        i.pid = "OUT" /\ i.endpoint = StreamEndpointNumber}
StreamMismatchedTicks ==
    {i \in StreamOutTicks : i.rx_pid_toggle # expected_data_toggle}
StreamMatchingTicks ==
    {i \in StreamOutTicks : i.rx_pid_toggle = expected_data_toggle}
StreamPingTicks ==
    {i \in StreamOutInputs :
        i.pid = "PING" /\ i.endpoint = StreamEndpointNumber}

\* The committed bytes after the consumer's read of the tick, if any.
AfterConsumer(i) ==
    IF i.stream_ready /\ rx_committed # <<>>
    THEN Tail(rx_committed) ELSE rx_committed

\* C7: in every tick of an OUT transaction to the adapter's endpoint whose
\* toggle differs from the expected one, whatever the free space: the response
\* asked for at rx_ready_for_response is ACK (and not NAK), no byte is written
\* to the FIFO and the expected toggle keeps its value, so the next tick of
\* the transaction is a mismatched one again.  The transaction starts with no
\* uncommitted bytes (every packet ends in a commit or a discard), and then
\* its commit or discard moves nothing: the uncommitted run stays empty and
\* the committed bytes change only by what the consumer reads.
C7_ToggleMismatchReAck ==
    \A i \in StreamMismatchedTicks :
        /\ i.rx_ready_for_response => (StreamAck(i) /\ ~StreamNak(i))
        /\ ~StreamFifoWriteEn(i)
        /\ ExpectedDataToggleNext(i) = expected_data_toggle
        /\ Len(RxPendingNext(i)) <= Len(rx_pending)
        /\ rx_pending = <<>> =>
              /\ RxPendingNext(i) = <<>>
              /\ RxCommittedNext(i) = AfterConsumer(i)

\* A skipped packet was ACKed while the FIFO has less room than a packet
\* needs, and the FIFO holds committed bytes and no uncommitted ones.
C7_Witness ==
    /\ stream_reack
    /\ stream_hs.ack
    /\ StreamSpaceAvailable < StreamMaxPacketSize
    /\ rx_pending = <<>>
    /\ rx_committed # <<>>

\* C8: the expected toggle changes in a tick exactly when the response to an
\* OUT data packet to the adapter's endpoint is asked for, the packet's toggle
\* is the expected one and the FIFO has room for a packet; that tick ACKs, and
\* the toggle takes the other value.  So no tick of a PING, of a NAKed or a
\* toggle-mismatched packet, of a packet that ends CRC-invalid (no response is
\* asked for) or of a token to another endpoint changes it.
C8_ToggleFlipsOnlyOnAcceptedData ==
    \A i \in StreamOutInputs :
        LET accepted ==
                /\ i.pid = "OUT"
                /\ i.endpoint = StreamEndpointNumber
                /\ i.rx_ready_for_response
                /\ i.rx_pid_toggle = expected_data_toggle
                /\ StreamSpaceAvailable >= StreamMaxPacketSize
        IN  /\ accepted => /\ ExpectedDataToggleNext(i) = 1 - expected_data_toggle
                           /\ StreamAck(i)
            /\ ~accepted => ExpectedDataToggleNext(i) = expected_data_toggle
            /\ (\/ i.pid # "OUT"
                \/ i.endpoint # StreamEndpointNumber
                \/ StreamNak(i)
                \/ i.rx_pid_toggle # expected_data_toggle
                \/ ~i.rx_ready_for_response) =>
                  ExpectedDataToggleNext(i) = expected_data_toggle

\* A matching packet was just ACKed and the expected toggle is DATA1.
C8_Witness ==
    /\ stream_hs.ack
    /\ ~stream_reack
    /\ expected_data_toggle = 1
    /\ rx_committed # <<>>

\* C9: a PING token to the adapter's endpoint at ready_for_response is
\* answered ACK whenever the FIFO has at least max_packet_size free elements,
\* whatever the incoming toggle and the expected toggle.
C9_PingAckedWhenSpace ==
    StreamSpaceAvailable >= StreamMaxPacketSize =>
        \A i \in StreamPingTicks : i.ready_for_response => StreamAck(i)

\* The tokens that ask the adapter for a response.
StreamPingRequests == {i \in StreamPingTicks : i.ready_for_response}
StreamDataRequests(ticks) == {i \in ticks : i.rx_ready_for_response}

StreamFifoTicks ==
    {i \in StreamOutInputs :
        ~i.ready_for_response /\ ~i.rx_ready_for_response}

\* C11: the bytes the consumer can read change in a tick only by the
\* consumer's own read and by a commit, and a commit happens only in the tick
\* of complete_out (valid CRC), so a byte written is not readable before its
\* packet completes; the tick of invalid_out empties the uncommitted run and
\* leaves the readable bytes as they are but for the consumer's read, and
\* ACKs nothing; and after a packet that ended invalid the run is gone, the
\* link layer asks for no response and no ACK is on the handshake lines.
C11_VisibleOnlyAfterCommit ==
    /\ \A i \in StreamFifoTicks :
          /\ StreamFifoWriteCommit(i) => i.rx_end = "complete"
          /\ i.rx_end # "complete" => RxCommittedNext(i) = AfterConsumer(i)
          /\ i.rx_end = "complete" =>
                RxCommittedNext(i) \in
                    {AfterConsumer(i), AfterConsumer(i) \o rx_pending}
    /\ host_phase = "data" =>
          \A i \in HostInputs :
              i.rx_end = "invalid" =>
                  /\ RxPendingNext(i) = <<>>
                  /\ RxCommittedNext(i) = AfterConsumer(i)
                  /\ ~StreamAck(i)
    /\ host_end = "invalid" =>
          /\ host_phase = "idle"
          /\ rx_pending = <<>>
          /\ ~stream_hs.ack

\* A packet of max_packet_size bytes was stored whole behind readable bytes
\* and then ended invalid.
C11_Witness ==
    /\ host_end = "invalid"
    /\ Len(host_packet) = StreamMaxPacketSize
    /\ host_run = host_packet
    /\ rx_committed # <<>>
    /\ rx_pending = <<>>

\* C12: of an OUT data packet of at most max_packet_size bytes to the
\* adapter's endpoint that completes, either all bytes are committed, in
\* order, or none is: the run committed at complete_out is the packet or is
\* empty, whatever the fill level at the start and the consumer's reads.
C12_WholePacketOrNothing ==
    host_end = "complete" => host_run \in {<<>>, host_packet}

\* s ends with t, or t ends with s.
EndsAlike(s, t) ==
    LET n == Len(s)
        m == Len(t)
    IN  IF n >= m THEN SubSeq(s, n - m + 1, n) = t
        ELSE SubSeq(t, m - n + 1, m) = s

\* C13: the transactional FIFO, tick by tick, with reads interleaved.  A write
\* appends the byte to the uncommitted run and an accepted write never changes
\* the readable bytes; a discard empties the run and leaves the readable bytes
\* what they are without it (the consumer's read apart); a commit makes the
\* readable bytes the prior ones followed by the run in write order; the byte
\* the reader sees is the oldest committed one.  And for a whole packet: what
\* is readable after its commit ends with the run written (or is what the
\* reader has left of it), and while the packet arrives the readable bytes
\* only shrink.
C13_FifoTransactionality ==
    /\ \A i \in StreamFifoTicks :
          LET byte == IF StreamFifoWriteEn(i) /\ StreamSpaceAvailable > 0
                      THEN <<i.rx>> ELSE <<>>
          IN  CASE StreamFifoWriteCommit(i) ->
                      /\ RxCommittedNext(i) = AfterConsumer(i) \o rx_pending
                      /\ RxPendingNext(i) = byte
                [] StreamFifoWriteDiscard(i) ->
                      /\ RxCommittedNext(i) = AfterConsumer(i)
                      /\ RxPendingNext(i) = <<>>
                [] OTHER ->
                      /\ RxCommittedNext(i) = AfterConsumer(i)
                      /\ RxPendingNext(i) = rx_pending \o byte
    /\ StreamPayload = IF rx_committed = <<>> THEN NoByte ELSE rx_committed[1]
    /\ host_end = "complete" => EndsAlike(rx_committed, host_run)
    /\ host_phase = "data" =>
          \A i \in HostInputs :
              i.rx_end = "none" =>
                  /\ Len(RxCommittedNext(i)) <= Len(rx_committed)
                  /\ EndsAlike(rx_committed, RxCommittedNext(i))

\* A packet of max_packet_size bytes, not all equal, was committed behind
\* bytes that were readable before, and all of it is still to be read.
C13_Witness ==
    /\ host_end = "complete"
    /\ Len(host_run) = StreamMaxPacketSize
    /\ host_run[1] # host_run[Len(host_run)]
    /\ Len(rx_committed) > Len(host_run)
    /\ EndsAlike(rx_committed, host_run)

\* The ticks that read a FIFO: the controller reads the data register (SETUP,
\* OUT), the link layer takes a byte (IN: tx.ready), the consumer takes one
\* (stream.ready).
SetupReadTicks == {i \in SetupInputs : SetupFifoREn(i)}
OutReadTicks == {i \in OutTickInputs : OutFifoREn(i)}
InReadTicks == {i \in InTickInputs : i.tx_ready}
StreamReadTicks == {i \in StreamTickInputs : StreamFifoReadEn(i)}

\* C14: in every manager the FIFO holds between 0 and its capacity bytes (the
\* IN manager's count agrees with its FIFO); a tick that offers a byte to a
\* full FIFO ends as the same tick without the byte, FIFO and IN count alike;
\* a tick that reads an empty FIFO ends as the same tick without the read.
\* (The ticks are those of OutTickInputs, InTickInputs and StreamTickInputs,
\* which stand for all inputs.)
C14_FifoOccupancy ==
    /\ Len(setup_fifo) \in 0..SetupFifoDepth
    /\ Len(out_fifo) \in 0..OutFifoDepth
    /\ Len(in_fifo) \in 0..InMaxPacketSize
    /\ in_bytes_in_fifo = Len(in_fifo)
    /\ Len(rx_committed) + Len(rx_pending) \in 0..StreamBufferSize
    /\ StreamSpaceAvailable \in 0..StreamBufferSize
    \* writes to a full FIFO
    /\ Len(setup_fifo) = SetupFifoDepth =>
          \A i \in SetupInputs :
              SetupFifoWEn(i) =>
                  SetupFifoNext(i) = SetupFifoNext([i EXCEPT !.rx = NoByte])
    /\ Len(out_fifo) = OutFifoDepth =>
          \A i \in OutTickInputs :
              OutFifoWEn(i) =>
                  OutFifoNext(i) = OutFifoNext([i EXCEPT !.rx = NoByte])
    /\ Len(in_fifo) = InMaxPacketSize =>
          \A i \in InTickInputs :
              InFifoWEn(i) =>
                  /\ InFifoNext(i) = InFifoNext([i EXCEPT !.csr = CsrNone])
                  /\ InBytesInFifoNext(i) =
                        InBytesInFifoNext([i EXCEPT !.csr = CsrNone])
    /\ StreamSpaceAvailable = 0 =>
          \A i \in StreamTickInputs :
              i.rx # NoByte =>
                  /\ RxCommittedNext(i) = RxCommittedNext([i EXCEPT !.rx = NoByte])
                  /\ RxPendingNext(i) = RxPendingNext([i EXCEPT !.rx = NoByte])
    \* reads of an empty FIFO
    /\ setup_fifo = <<>> =>
          \A i \in SetupReadTicks :
              SetupFifoNext(i) = SetupFifoNext([i EXCEPT !.csr = "none"])
    /\ out_fifo = <<>> =>
          \A i \in OutReadTicks :
              OutFifoNext(i) = OutFifoNext([i EXCEPT !.csr = CsrNone])
    /\ in_fifo = <<>> =>
          \A i \in InReadTicks :
              InFifoREn(i) =>
                  /\ InFifoNext(i) = InFifoNext([i EXCEPT !.tx_ready = FALSE])
                  /\ InBytesInFifoNext(i) =
                        InBytesInFifoNext([i EXCEPT !.tx_ready = FALSE])
    /\ rx_committed = <<>> =>
          \A i \in StreamReadTicks :
              /\ RxCommittedNext(i) =
                    RxCommittedNext([i EXCEPT !.stream_ready = FALSE])
              /\ RxPendingNext(i) =
                    RxPendingNext([i EXCEPT !.stream_ready = FALSE])

\* The IN manager reads its FIFO (SEND_DATA) while the FIFO is empty.
C14_Witness ==
    /\ in_state = "SEND_DATA"
    /\ in_fifo = <<>>
    /\ in_bytes_in_fifo = 0

\* The ticks in which a new SETUP token arrives.
InSetupTicks == {i \in InTickInputs : i.pid = "SETUP" /\ i.new_token}
OutSetupTicks == {i \in OutTickInputs : i.pid = "SETUP" /\ i.new_token}

\* C15: in the IN and in the OUT manager, after the tick of a new SETUP token
\* to endpoint e the stall flag of e is clear, for every endpoint number e
\* (also when the controller writes the stall register in that tick), and
\* the flag of every other endpoint is what the same tick without the token
\* makes it.
C15_SetupClearsStall ==
    /\ \A i \in InSetupTicks :
          /\ ~InStalledNext(i)[i.endpoint]
          /\ \A e \in Endpoints \ {i.endpoint} :
                InStalledNext(i)[e] =
                    InStalledNext([i EXCEPT !.new_token = FALSE])[e]
    /\ \A i \in OutSetupTicks :
          /\ ~OutStalledNext(i)[i.endpoint]
          /\ \A e \in Endpoints \ {i.endpoint} :
                OutStalledNext(i)[e] =
                    OutStalledNext([i EXCEPT !.new_token = FALSE])[e]

\* Every endpoint of the IN manager is stalled, endpoint 0 and the others: a
\* SETUP token to any of them clears that one.
C15_Witness ==
    /\ \A e \in Endpoints : in_stalled[e]
    /\ in_epno # 0

\* C16: a controller write to the SETUP handler's reset register, in a tick
\* that brings no SETUP byte, leaves the SETUP FIFO empty: the data-available
\* flag then reads 0 and no earlier byte can be read.
C16_ResetWriteEmptiesFifo ==
    \A i \in SetupInputs :
        i.csr = "reset_w" /\ i.rx = NoByte => SetupFifoNext(i) = <<>>

\* s is t with some elements left out, the others in t's order.
RECURSIVE InOrderWithin(_, _)
InOrderWithin(s, t) ==
    IF s = <<>> THEN TRUE
    ELSE IF t = <<>> THEN FALSE
    ELSE IF Head(s) = Head(t) THEN InOrderWithin(Tail(s), Tail(t))
    ELSE InOrderWithin(s, Tail(t))

\* C17: in the SETUP capture, whatever tokens and controller reads came
\* before, the bytes the controller has read since the latest SETUP token
\* followed by the bytes still readable are bytes of that token's data phase
\* in arrival order, and all of them while the data phase fits the FIFO; a
\* new SETUP token leaves the FIFO empty, discarding what was unread; and a
\* tick whose token is not SETUP never adds a byte.
C17_FifoHoldsLatestSetupPacket ==
    /\ InOrderWithin(ctl_read \o setup_fifo, ctl_packet)
    /\ Len(ctl_packet) <= SetupFifoDepth => ctl_read \o setup_fifo = ctl_packet
    /\ \A i \in SetupHostInputs :
          /\ (i.new_token /\ i.pid = "SETUP") => SetupFifoNext(i) = <<>>
          /\ i.pid # "SETUP" => Len(SetupFifoNext(i)) <= Len(setup_fifo)

\* A SETUP token arrived over unread bytes of an earlier one; of its own data
\* phase, which fills the FIFO, the controller has read a part, and a later
\* token of another kind has brought a data phase since.
C17_Witness ==
    /\ ctl_discarded
    /\ Len(ctl_packet) = SetupFifoDepth
    /\ ctl_read # <<>>
    /\ setup_fifo # <<>>
    /\ ctl_pid = "OUT"

\* C18: once a SETUP token has arrived, the SETUP capture's endpoint-number
\* register reads the endpoint of the latest SETUP token, also after IN, OUT
\* or PING tokens to other endpoints.
C18_EpnoIsLatestSetupEndpoint ==
    ctl_endpoint # NoEndpoint => setup_epno = ctl_endpoint

\* C19: in the IN manager the toggle attached to outgoing packets is the pid
\* register at every tick, and after a tick the register holds the value the
\* controller wrote in it, or its old value when the controller wrote none:
\* no token, handshake, priming, FIFO reset or transmission changes it.
C19_ToggleIsControllerWritten ==
    /\ InTxToggle = in_pid
    /\ \A i \in InTickInputs :
          InPidNext(i) = IF i.csr.op = "pid_w" THEN i.csr.val ELSE in_pid

\* A whole packet has gone out with the toggle the controller set to 1.
C19_Witness ==
    /\ in_pid = 1
    /\ in_track = "sent"
    /\ Len(in_packet) = InMaxPacketSize

\* The IN tokens at ready-for-response to an endpoint other than the primed
\* one, in a tick without a register access.
InMismatchedTokens ==
    {i \in InInputs :
        /\ i.pid = "IN" /\ i.ready_for_response /\ ~i.new_token
        /\ i.endpoint # in_epno
        /\ i.csr = CsrNone}

\* Such a token leaves the FSM state, the primed endpoint number, the FIFO and
\* its byte count as they were.
C20_KeepsPrimedData(i) ==
    /\ InStateNext(i) = in_state
    /\ InEpnoNext(i) = in_epno
    /\ InFifoNext(i) = in_fifo
    /\ InBytesInFifoNext(i) = in_bytes_in_fifo

InPrimingTicks == {i \in InInputs : i.csr.op = "epno_w" /\ ~i.new_token}

\* C21: in IDLE a controller write of the epno register moves the IN manager
\* to PRIMED exactly when the stall flag of the written endpoint number is
\* clear, whatever endpoint the tokenizer holds; otherwise it stays in IDLE.
C21_PrimesUnlessWrittenEndpointStalled ==
    in_state = "IDLE" =>
        \A i \in InPrimingTicks :
            InStateNext(i) = IF in_stalled[i.csr.val] THEN "IDLE" ELSE "PRIMED"

\* At most one of the three handshakes.
AtMostOne(a, n, st) == ~(a /\ n) /\ ~(a /\ st) /\ ~(n /\ st)

\* C22: in every reachable state of every manager and for every token,
\* strobe, byte and register access of a tick, at most one of ACK, NAK and
\* STALL is asserted.  (The ticks of the OUT manager, the IN manager and the
\* adapter are those of OutTickInputs, InTickInputs and StreamTickInputs,
\* which stand for all inputs.)
C22_HandshakesExclusive ==
    /\ \A i \in SetupInputs : AtMostOne(SetupAck(i), SetupNak(i), SetupStall(i))
    /\ \A i \in OutTickInputs : AtMostOne(OutAck(i), OutNak(i), OutStall(i))
    /\ \A i \in InTickInputs : AtMostOne(InAck(i), InNak(i), InStall(i))
    /\ \A i \in StreamTickInputs :
          AtMostOne(StreamAck(i), StreamNak(i), StreamStall(i))
    /\ AtMostOne(setup_hs.ack, setup_hs.nak, setup_hs.stall)
    /\ AtMostOne(out_hs.ack, out_hs.nak, out_hs.stall)
    /\ AtMostOne(in_hs.ack, in_hs.nak, in_hs.stall)
    /\ AtMostOne(stream_hs.ack, stream_hs.nak, stream_hs.stall)

\* The OUT manager, armed for an endpoint whose stall flag is set, has
\* answered STALL.
C22_Witness ==
    /\ out_hs.stall
    /\ out_enable
    /\ out_stalled[out_epno]

\* C23: a write of the IN manager's reset register, in whichever FSM state,
\* leaves the FIFO empty and the byte count 0, and from then until the
\* controller primes again (a write of the epno register) the manager hands
\* nothing to the transmitter: tx.valid stays low.
C23_ResetSendsNothing ==
    /\ \A i \in InTickInputs :
          i.csr.op = "reset_w" =>
              InFifoNext(i) = <<>> /\ InBytesInFifoNext(i) = 0
    /\ in_cleared => ~InTxValid

\* C24: when an OUT transaction has been answered ACK, the FIFO holds what it
\* held at the token followed by every byte of the packet in order; a packet
\* the FIFO has no room for is therefore not ACKed.
C24_AckedPacketStoredWhole ==
    (oh_phase = "responded" /\ oh_result.ack) =>
        out_fifo = oh_before \o oh_packet

\* C25: when an OUT transaction has been answered NAK or STALL, the FIFO holds
\* what it held at the token, whatever the controller wrote to the enable,
\* epno and stall registers during the packet.
C25_RefusedPacketBuffersNothing ==
    (oh_phase = "responded" /\ (oh_result.nak \/ oh_result.stall)) =>
        out_fifo = oh_before

\* C26: in the streaming transmit adapter, once the host has acknowledged a
\* full-size packet that ended a record, a packet is on offer and it is the
\* zero-length packet, until the host acknowledges that one: no byte of the
\* next record goes out before it.  An IN token to another endpoint number
\* changes nothing in the manager.
C26_ZlpAfterFullSizeRecordEnd ==
    /\ tx_owed =>
          /\ tm_state \in {"WAIT_TO_SEND", "WAIT_FOR_ACK"}
          /\ tm_read = ZeroLengthPacket
    /\ \A i \in StreamInInputs :
          (i.kind = "in_token" /\ i.endpoint # StreamInEndpointNumber) =>
              /\ TmNext(i) = TmManager
              /\ TxOwedNext(i) = tx_owed

\* The zero-length packet is on its way to the host while the first bytes of
\* the next record wait in the other buffer.
C26_Witness ==
    /\ tx_owed
    /\ tm_state = "WAIT_FOR_ACK"
    /\ tm_read = ZeroLengthPacket
    /\ Len(tm_write.bytes) = StreamMaxPacketSize

\* C27, its last sentence: when the adapter has committed bytes of a packet
\* (the packet ended with a valid CRC while the FIFO held bytes of it), they
\* are the whole packet, and the transaction is answered ACK and flips the
\* expected toggle, whenever the link layer asks for the response.  Without
\* it the host, resending until it sees an ACK, delivers a packet twice or
\* in part.
C27_CommittedPacketIsAcked ==
    (host_phase = "response" /\ host_end = "complete" /\ host_run # <<>>) =>
        /\ host_run = host_packet
        /\ \A i \in HostInputs :
              i.rx_ready_for_response =>
                  /\ StreamAck(i)
                  /\ ExpectedDataToggleNext(i) # expected_data_toggle

\* C28: the IN manager's FSM always returns to IDLE.  A tick after SEND_ZLP
\* it is in IDLE, and from SEND_DATA it reaches IDLE when the link layer
\* keeps accepting bytes, whatever the controller does meanwhile.
C28_SendZlpTakesOneTick ==
    in_state = "SEND_ZLP" => \A i \in InTickInputs : InStateNext(i) = "IDLE"
C28_SendingReturnsToIdle ==
    /\ [](C28_SendZlpTakesOneTick)
    /\ (in_state \in {"SEND_ZLP", "SEND_DATA"}) ~> (in_state = "IDLE")

\* C29: in the IN and in the OUT manager, in a tick with both a write of the
\* stall register (it addresses the selected endpoint) and a new SETUP
\* token: when the token is to the selected endpoint its flag is clear after
\* the tick whatever value was written; when it is to another endpoint the
\* selected endpoint's flag is the written value, the token's endpoint's
\* flag is clear, and every other flag is unchanged.
InStallRaceTicks == {i \in InSetupTicks : i.csr.op = "stall_w"}
OutStallRaceTicks == {i \in OutSetupTicks : i.csr.op = "stall_w"}
StallRaceOutcome(i, epno, before, after) ==
    /\ ~after[i.endpoint]
    /\ i.endpoint # epno => after[epno] = (i.csr.val = 1)
    /\ \A e \in Endpoints \ {i.endpoint, epno} : after[e] = before[e]
C29_SetupClearWinsOverStallWrite ==
    /\ InStallRaceTicks # {} /\ OutStallRaceTicks # {}
    /\ \A i \in InStallRaceTicks :
          StallRaceOutcome(i, in_epno, in_stalled, InStalledNext(i))
    /\ \A i \in OutStallRaceTicks :
          StallRaceOutcome(i, out_epno, out_stalled, OutStalledNext(i))

\* The OUT manager with endpoint 1 selected and endpoint 0 stalled: a stall
\* write with a SETUP token to endpoint 0 changes both flags, one with a
\* SETUP token to endpoint 1 is the race on one flag.
C29_Witness == out_epno = 1 /\ out_stalled[0] /\ ~out_stalled[1]

====
